---- MODULE Spec2Model ----
(***************************************************************************)
(* Student-Portfolio-Backend: the request handlers of src/app.js (the      *)
(* horizontal, wide-schema variant) and of src/unnamed/part_000 (the       *)
(* session-based, one-row-per-record variant), with the sheet decoders     *)
(* they call.                                                              *)
(*                                                                         *)
(* Strings are TLA+ strings, handled character by character.  JavaScript   *)
(* numbers are exact rationals plus NaN: [nan, n, d] with d > 0 and n/d in *)
(* lowest terms.  The rounding of IEEE-754 doubles is not modelled.        *)
(* Arrays are sequences, so an index i of the source is i + 1 here and the *)
(* -1 of findIndex is 0.                                                   *)
(***************************************************************************)
EXTENDS Integers, Sequences, FiniteSets, TLC

(***************************************************************************)
(* JavaScript values                                                       *)
(***************************************************************************)

\* The value of a missing array element or object property.  No cell of a
\* sheet holds this text.
Undefined == "<undefined>"

\* A test for undefined alone, which takes '' for a value.
Defined(v) == v # Undefined

\* ToBoolean of a string-or-undefined value: '' and undefined are falsy.
Truthy(v) == v # Undefined /\ v # ""

\* row[i] of the source, for the 1-based index i; 0 stands for the index -1.
Cell(row, i) == IF i >= 1 /\ i <= Len(row) THEN row[i] ELSE Undefined

\* a || b on string-or-undefined values.
OrElse(a, b) == IF Truthy(a) THEN a ELSE b

\* The set of the elements of an array.
Elements(arr) == {arr[i] : i \in 1..Len(arr)}

(***************************************************************************)
(* Strings                                                                 *)
(***************************************************************************)

UpperChars == "ABCDEFGHIJKLMNOPQRSTUVWXYZ"
LowerChars == "abcdefghijklmnopqrstuvwxyz"
DigitChars == "0123456789"

CharAt(s, i) == SubSeq(s, i, i)

CharsOf(alphabet) == {CharAt(alphabet, i) : i \in 1..Len(alphabet)}

PosInChars(c, alphabet) == CHOOSE i \in 1..Len(alphabet) : CharAt(alphabet, i) = c

Digits == CharsOf(DigitChars)

DigitValues == [c \in Digits |-> PosInChars(c, DigitChars) - 1]

LowerOf == [c \in CharsOf(UpperChars) |-> CharAt(LowerChars, PosInChars(c, UpperChars))]

UpperOf == [c \in CharsOf(LowerChars) |-> CharAt(UpperChars, PosInChars(c, LowerChars))]

LowerOrUnderscore == CharsOf(LowerChars) \cup {"_"}

IsDigit(c) == c \in Digits

DigitVal(c) == DigitValues[c]

LowerChar(c) == IF c \in DOMAIN LowerOf THEN LowerOf[c] ELSE c

UpperChar(c) == IF c \in DOMAIN UpperOf THEN UpperOf[c] ELSE c

RECURSIVE toLowerCase(_)
toLowerCase(s) == IF s = "" THEN "" ELSE LowerChar(Head(s)) \o toLowerCase(Tail(s))

endsWith(s, suffix) ==
    /\ Len(s) >= Len(suffix)
    /\ SubSeq(s, Len(s) - Len(suffix) + 1, Len(s)) = suffix

\* s.substring(0, n)
substring0(s, n) == SubSeq(s, 1, n)

\* s.split(sep) for a one-character separator: always at least one part.
RECURSIVE splitFrom(_, _, _)
splitFrom(s, sep, cur) ==
    IF s = "" THEN <<cur>>
    ELSE IF Head(s) = sep THEN <<cur>> \o splitFrom(Tail(s), sep, "")
    ELSE splitFrom(Tail(s), sep, cur \o Head(s))

split(s, sep) == splitFrom(s, sep, "")

\* parts.join(sep)
RECURSIVE join(_, _)
join(parts, sep) ==
    IF Len(parts) = 0 THEN ""
    ELSE IF Len(parts) = 1 THEN parts[1]
    ELSE parts[1] \o sep \o join(Tail(parts), sep)

\* The length of the longest suffix of s made of digits only.
RECURSIVE TrailingDigits(_)
TrailingDigits(s) ==
    IF s = "" \/ ~IsDigit(CharAt(s, Len(s))) THEN 0
    ELSE 1 + TrailingDigits(SubSeq(s, 1, Len(s) - 1))

\* /^[a-z_]+$/
RECURSIVE AllLowerOrUnderscore(_)
AllLowerOrUnderscore(s) ==
    \/ s = ""
    \/ /\ Head(s) \in LowerOrUnderscore
       /\ AllLowerOrUnderscore(Tail(s))

\* /^\d+$/ and /^\d{5}$/
RECURSIVE AllDigits(_)
AllDigits(s) == s = "" \/ (IsDigit(Head(s)) /\ AllDigits(Tail(s)))

(***************************************************************************)
(* Numbers                                                                 *)
(***************************************************************************)

NaN == [nan |-> TRUE, n |-> 0, d |-> 1]

RECURSIVE Gcd(_, _)
Gcd(a, b) == IF b = 0 THEN a ELSE Gcd(b, a % b)

Abs(x) == IF x < 0 THEN -x ELSE x

\* The rational n/d (d > 0) in lowest terms.
Rat(n, d) ==
    LET g == Gcd(Abs(n), d)
    IN  [nan |-> FALSE, n |-> n \div g, d |-> d \div g]

Num(i) == Rat(i, 1)

isNaN(x) == x.nan

\* a / b of the source, on numbers that are not NaN; x / 0 is NaN for x = 0 and
\* an infinity otherwise, which no caller of this operator produces.
NumDiv(a, b) ==
    IF a.nan \/ b.nan \/ b.n = 0 THEN NaN
    ELSE IF b.n > 0 THEN Rat(a.n * b.d, a.d * b.n)
    ELSE Rat(-(a.n * b.d), a.d * (-b.n))

NumMul(a, b) == IF a.nan \/ b.nan THEN NaN ELSE Rat(a.n * b.n, a.d * b.d)

NumAdd(a, b) == IF a.nan \/ b.nan THEN NaN ELSE Rat(a.n * b.d + b.n * a.d, a.d * b.d)

NumSub(a, b) == IF a.nan \/ b.nan THEN NaN ELSE Rat(a.n * b.d - b.n * a.d, a.d * b.d)

\* a > b; every comparison with NaN is false.
NumGt(a, b) == ~a.nan /\ ~b.nan /\ a.n * b.d > b.n * a.d

\* a < b: a gate on 'less than' lets a value equal to the limit through.
NumLt(a, b) == ~a.nan /\ ~b.nan /\ a.n * b.d < b.n * a.d

NumLe(a, b) == ~a.nan /\ ~b.nan /\ a.n * b.d <= b.n * a.d

\* The leading spaces of s removed (the white space parseInt and parseFloat skip).
RECURSIVE SkipSpaces(_)
SkipSpaces(s) == IF s # "" /\ Head(s) = " " THEN SkipSpaces(Tail(s)) ELSE s

\* The length of the longest prefix of s made of digits only.
RECURSIVE LeadingDigits(_)
LeadingDigits(s) == IF s = "" \/ ~IsDigit(Head(s)) THEN 0 ELSE 1 + LeadingDigits(Tail(s))

\* The value of a string of digits.
RECURSIVE DigitsValue(_)
DigitsValue(s) ==
    IF s = "" THEN 0
    ELSE 10 * DigitsValue(SubSeq(s, 1, Len(s) - 1)) + DigitVal(CharAt(s, Len(s)))

RECURSIVE Pow10(_)
Pow10(k) == IF k = 0 THEN 1 ELSE 10 * Pow10(k - 1)

\* parseInt(string): leading white space, a sign, then the longest run of
\* decimal digits; NaN when there is no digit there.
parseInt(v) ==
    IF v = Undefined THEN NaN
    ELSE
    LET s == SkipSpaces(v)
        neg == s # "" /\ Head(s) = "-"
        signed == s # "" /\ (Head(s) = "-" \/ Head(s) = "+")
        body == IF signed THEN Tail(s) ELSE s
        k == LeadingDigits(body)
    IN  IF k = 0 THEN NaN
        ELSE Num((IF neg THEN -1 ELSE 1) * DigitsValue(SubSeq(body, 1, k)))

\* parseFloat(string): leading white space, a sign, digits, then a point and
\* digits; NaN when neither run of digits is there.
parseFloat(v) ==
    IF v = Undefined THEN NaN
    ELSE
    LET s == SkipSpaces(v)
        neg == s # "" /\ Head(s) = "-"
        signed == s # "" /\ (Head(s) = "-" \/ Head(s) = "+")
        body == IF signed THEN Tail(s) ELSE s
        k == LeadingDigits(body)
        rest == SubSeq(body, k + 1, Len(body))
        point == rest # "" /\ Head(rest) = "."
        f == IF point THEN LeadingDigits(Tail(rest)) ELSE 0
        ip == DigitsValue(SubSeq(body, 1, k))
        fp == IF point THEN DigitsValue(SubSeq(rest, 2, f + 1)) ELSE 0
    IN  IF k = 0 /\ f = 0 THEN NaN
        ELSE Rat((IF neg THEN -1 ELSE 1) * (ip * Pow10(f) + fp), Pow10(f))

\* ToNumber(string) for the operands of new Date(y, m, d) and of the
\* subtraction m - 1: the whole string has to be a number, '' is 0 and
\* undefined is NaN.
ToNumber(v) ==
    IF v = Undefined THEN NaN
    ELSE IF v = "" THEN Num(0)
    ELSE IF AllDigits(v) THEN Num(DigitsValue(v))
    ELSE NaN

(***************************************************************************)
(* Helpers of src/app.js                                                   *)
(***************************************************************************)

\* headers.findIndex(h => h.toLowerCase() === name): the first such index, 0
\* (the source's -1) when there is none.
RECURSIVE FindFrom(_, _, _)
FindFrom(headers, name, i) ==
    IF i > Len(headers) THEN 0
    ELSE IF toLowerCase(headers[i]) = name THEN i
    ELSE FindFrom(headers, name, i + 1)

findIndex(headers, name) == FindFrom(headers, name, 1)

\* The result of a row lookup: a row, or the source's null.
Null == [found |-> FALSE, row |-> <<>>]

Found(r) == [found |-> TRUE, row |-> r]

\* The first i in from..Len(values) whose row has admissionNo at
\* admissionIndex, 0 when there is none.
RECURSIVE ScanRows(_, _, _, _)
ScanRows(values, admissionIndex, admissionNo, i) ==
    IF i > Len(values) THEN 0
    ELSE IF Cell(values[i], admissionIndex) = admissionNo THEN i
    ELSE ScanRows(values, admissionIndex, admissionNo, i + 1)

\* The last i in 2..Len(values) whose row has admissionNo at admissionIndex.
RECURSIVE ScanRowsLast(_, _, _, _)
ScanRowsLast(values, admissionIndex, admissionNo, i) ==
    IF i < 2 THEN 0
    ELSE IF Cell(values[i], admissionIndex) = admissionNo THEN i
    ELSE ScanRowsLast(values, admissionIndex, admissionNo, i - 1)

\* findStudentByAdmissionNo with the scan run from the end: the last row wins.
findStudentByAdmissionNoLast(values, headers, admissionNo) ==
    IF Len(values) < 2 THEN Null
    ELSE
    LET admissionIndex == findIndex(headers, "admission_no")
    IN  IF admissionIndex = 0 THEN Null
        ELSE
        LET i == ScanRowsLast(values, admissionIndex, admissionNo, Len(values))
        IN  IF i = 0 THEN Null ELSE Found(values[i])

findStudentByAdmissionNo(values, headers, admissionNo) ==
    IF Len(values) < 2 THEN Null
    ELSE
    LET admissionIndex == findIndex(headers, "admission_no")
    IN  IF admissionIndex = 0 THEN Null
        ELSE
        LET i == ScanRows(values, admissionIndex, admissionNo, 2)
        IN  IF i = 0 THEN Null ELSE Found(values[i])

getValueByHeader(found, headers, headerName) ==
    IF ~found.found THEN ""
    ELSE
    LET index == findIndex(headers, toLowerCase(headerName))
    IN  IF index # 0 /\ index <= Len(found.row) THEN OrElse(found.row[index], "") ELSE ""

capitalizeFirstLetter(string) ==
    IF string = "" THEN "" ELSE UpperChar(Head(string)) \o Tail(string)

RECURSIVE CapitalizeEach(_)
CapitalizeEach(words) ==
    IF Len(words) = 0 THEN <<>>
    ELSE <<capitalizeFirstLetter(Head(words))>> \o CapitalizeEach(Tail(words))

capitalizeSubject(subject) ==
    IF subject = "" THEN "" ELSE join(CapitalizeEach(split(subject, "_")), " ")

\* header.match(/^([a-z_]+)_<tag>(\d+)$/): the digits are the longest run of
\* digits at the end, '_<tag>' stands right before them and the subject, what
\* is left, is not empty.
PatternMatches(header, tag) ==
    LET k == TrailingDigits(header)
        stem == SubSeq(header, 1, Len(header) - k)
    IN  /\ k >= 1
        /\ endsWith(stem, "_" \o tag)
        /\ Len(stem) > Len(tag) + 1
        /\ AllLowerOrUnderscore(SubSeq(stem, 1, Len(stem) - Len(tag) - 1))

\* match[1]
PatternSubject(header, tag) ==
    SubSeq(header, 1, Len(header) - TrailingDigits(header) - Len(tag) - 1)

\* match[2]
PatternNum(header) == SubSeq(header, Len(header) - TrailingDigits(header) + 1, Len(header))

\* The cell as it is whenever the column is there: no default for a cell that
\* is empty or past the end of the row.
TextOrCell(headers, studentRow, name, dflt) ==
    LET index == findIndex(headers, name)
    IN  IF index # 0 THEN Cell(studentRow, index) ELSE dflt

\* index !== -1 ? (studentRow[index] || dflt) : dflt
TextOrDefault(headers, studentRow, name, dflt) ==
    LET index == findIndex(headers, name)
    IN  IF index # 0 THEN OrElse(Cell(studentRow, index), dflt) ELSE dflt

\* let v = 0; if (index !== -1 && studentRow[index]) { v = parseInt(...);
\* if (isNaN(v)) v = 0; }
IntOrZero(headers, studentRow, name) ==
    LET index == findIndex(headers, name)
    IN  IF index # 0 /\ Truthy(Cell(studentRow, index))
        THEN LET v == parseInt(Cell(studentRow, index))
             IN  IF isNaN(v) THEN Num(0) ELSE v
        ELSE Num(0)

\* The percentage of a test or of a month: the cell when it is there and
\* parses; when it does not parse, the quotient if the denominator is
\* positive and the unparsed value otherwise; with no cell, the quotient if
\* the denominator is positive, else 0.
PercentageOf(headers, studentRow, name, numerator, denominator) ==
    LET index == findIndex(headers, name)
        quotient == NumMul(NumDiv(numerator, denominator), Num(100))
    IN  IF index # 0 /\ Truthy(Cell(studentRow, index))
        THEN LET parsed == parseFloat(Cell(studentRow, index))
             IN  IF isNaN(parsed)
                 THEN (IF NumGt(denominator, Num(0)) THEN quotient ELSE parsed)
                 ELSE parsed
        ELSE IF NumGt(denominator, Num(0)) THEN quotient
        ELSE Num(0)

\* The entities of the columns i..n with the last column first.
RECURSIVE LoopReversed(_, _, _)
LoopReversed(One, i, n) == IF i > n THEN <<>> ELSE LoopReversed(One, i + 1, n) \o One[i]

\* The entities of the columns i..Len(headers), in header order; One[i] is
\* what the loop body pushes for column i: nothing or one entity.
RECURSIVE Loop(_, _, _)
Loop(One, i, n) == IF i > n THEN <<>> ELSE One[i] \o Loop(One, i + 1, n)

(***************************************************************************)
(* The wide-schema decoders of src/app.js.  studentRow is the result of    *)
(* the row lookup: with no row, every decoder returns the empty sequence.  *)
(***************************************************************************)

processHorizontalSubjects(headers, found) ==
    IF ~found.found THEN <<>>
    ELSE
    LET studentRow == found.row
        One[i \in 1..Len(headers)] ==
            LET header == toLowerCase(headers[i])
                subject == substring0(header, Len(header) - Len("_progress"))
                progressValue == Cell(studentRow, i)
                progress == parseFloat(progressValue)
            IN  IF ~endsWith(header, "_progress") THEN <<>>
                ELSE IF ~Truthy(progressValue) THEN <<>>
                ELSE IF isNaN(progress) THEN <<>>
                ELSE <<[subject |-> capitalizeSubject(subject),
                        progress |-> progress,
                        grade |-> TextOrDefault(headers, studentRow, subject \o "_grade", "")]>>
    IN  Loop(One, 1, Len(headers))

processHorizontalActivities(headers, found) ==
    IF ~found.found THEN <<>>
    ELSE
    LET studentRow == found.row
        One[i \in 1..Len(headers)] ==
            LET header == toLowerCase(headers[i])
                stem == PatternSubject(header, "activity") \o "_activity" \o PatternNum(header)
            IN  IF ~(PatternMatches(header, "activity") /\ Truthy(Cell(studentRow, i))) THEN <<>>
                ELSE <<[subject |-> capitalizeSubject(PatternSubject(header, "activity")),
                        activity |-> studentRow[i],
                        date |-> TextOrDefault(headers, studentRow, stem \o "_date", ""),
                        description |-> TextOrDefault(headers, studentRow, stem \o "_description", ""),
                        status |-> toLowerCase(TextOrDefault(headers, studentRow, stem \o "_status", "pending"))]>>
    IN  Loop(One, 1, Len(headers))

processHorizontalAssignments(headers, found) ==
    IF ~found.found THEN <<>>
    ELSE
    LET studentRow == found.row
        One[i \in 1..Len(headers)] ==
            LET header == toLowerCase(headers[i])
                stem == PatternSubject(header, "assignment") \o "_assignment" \o PatternNum(header)
            IN  IF ~(PatternMatches(header, "assignment") /\ Truthy(Cell(studentRow, i))) THEN <<>>
                ELSE <<[subject |-> capitalizeSubject(PatternSubject(header, "assignment")),
                        name |-> studentRow[i],
                        assignedDate |-> TextOrDefault(headers, studentRow, stem \o "_assigned_date", ""),
                        dueDate |-> TextOrDefault(headers, studentRow, stem \o "_due_date", ""),
                        status |-> toLowerCase(TextOrDefault(headers, studentRow, stem \o "_status", "pending")),
                        remarks |-> TextOrDefault(headers, studentRow, stem \o "_remarks", "")]>>
    IN  Loop(One, 1, Len(headers))

processHorizontalTests(headers, found) ==
    IF ~found.found THEN <<>>
    ELSE
    LET studentRow == found.row
        One[i \in 1..Len(headers)] ==
            LET header == toLowerCase(headers[i])
                stem == PatternSubject(header, "test") \o "_test" \o PatternNum(header)
                maxMarks == IntOrZero(headers, studentRow, stem \o "_max_marks")
                marksObtained == IntOrZero(headers, studentRow, stem \o "_marks_obtained")
            IN  IF ~(PatternMatches(header, "test") /\ Truthy(Cell(studentRow, i))) THEN <<>>
                ELSE <<[subject |-> capitalizeSubject(PatternSubject(header, "test")),
                        name |-> studentRow[i],
                        date |-> TextOrDefault(headers, studentRow, stem \o "_date", ""),
                        maxMarks |-> maxMarks,
                        marksObtained |-> marksObtained,
                        percentage |-> PercentageOf(headers, studentRow, stem \o "_percentage",
                                                    marksObtained, maxMarks),
                        grade |-> TextOrDefault(headers, studentRow, stem \o "_grade", "")]>>
    IN  Loop(One, 1, Len(headers))

processHorizontalCorrections(headers, found) ==
    IF ~found.found THEN <<>>
    ELSE
    LET studentRow == found.row
        One[i \in 1..Len(headers)] ==
            LET header == toLowerCase(headers[i])
                stem == PatternSubject(header, "correction") \o "_correction" \o PatternNum(header)
            IN  IF ~(PatternMatches(header, "correction") /\ Truthy(Cell(studentRow, i))) THEN <<>>
                ELSE <<[subject |-> capitalizeSubject(PatternSubject(header, "correction")),
                        copyType |-> studentRow[i],
                        date |-> TextOrDefault(headers, studentRow, stem \o "_date", ""),
                        improvements |-> TextOrDefault(headers, studentRow, stem \o "_improvements", ""),
                        remarks |-> TextOrDefault(headers, studentRow, stem \o "_remarks", "")]>>
    IN  Loop(One, 1, Len(headers))

\* The working days of column i: 0 when the cell does not parse.
WorkingDaysOf(studentRow, i) ==
    LET parsed == parseInt(Cell(studentRow, i))
    IN  IF isNaN(parsed) THEN Num(0) ELSE parsed

processHorizontalAttendance(headers, found) ==
    IF ~found.found THEN <<>>
    ELSE
    LET studentRow == found.row
        One[i \in 1..Len(headers)] ==
            LET header == toLowerCase(headers[i])
                month == substring0(header, Len(header) - Len("_working"))
                workingDays == WorkingDaysOf(studentRow, i)
                present == IntOrZero(headers, studentRow, month \o "_present")
            IN  IF ~(endsWith(header, "_working") /\ Truthy(Cell(studentRow, i))) THEN <<>>
                ELSE IF NumLe(workingDays, Num(0)) THEN <<>>
                ELSE <<[month |-> capitalizeFirstLetter(month),
                        workingDays |-> workingDays,
                        present |-> present,
                        absent |-> IntOrZero(headers, studentRow, month \o "_absent"),
                        percentage |-> PercentageOf(headers, studentRow, month \o "_percent",
                                                    present, workingDays)]>>
    IN  Loop(One, 1, Len(headers))

(***************************************************************************)
(* Dates and Array.prototype.sort                                          *)
(***************************************************************************)

\* The day number (days since 1970-01-01) of day 1 + (d - 1) of the 0-based
\* month m of year y, where m and d may lie outside a month's range, as
\* MakeDay computes it.
DayNumber(y, m, d) ==
    LET ym == y + (m \div 12)
        mn == (m % 12) + 1
        yy == IF mn <= 2 THEN ym - 1 ELSE ym
        era == yy \div 400
        yoe == yy - era * 400
        mp == IF mn > 2 THEN mn - 3 ELSE mn + 9
        doy == (153 * mp + 2) \div 5 + d - 1
        doe == yoe * 365 + (yoe \div 4) - (yoe \div 100) + doy
    IN  era * 146097 + doe - 719468

\* The largest day number of a valid Date (8.64e15 ms).
MaxDateDays == 100000000

\* The time value, in days, of new Date(year, month, date): NaN when an
\* operand is NaN or the date is out of range; a year 0..99 is 1900 + year.
\* The operands here are whole numbers.
NewDate(year, month, date) ==
    IF year.nan \/ month.nan \/ date.nan THEN NaN
    ELSE
    LET y == IF year.n >= 0 /\ year.n <= 99 THEN 1900 + year.n ELSE year.n
        day == DayNumber(y, month.n, date.n)
    IN  IF Abs(day) > MaxDateDays THEN NaN ELSE Num(day)

\* const parts = date.split('-'); new Date(parts[2], parts[1] - 1, parts[0])
DateOfTest(date) ==
    LET parts == split(date, "-")
    IN  NewDate(ToNumber(Cell(parts, 3)),
                NumSub(ToNumber(Cell(parts, 2)), Num(1)),
                ToNumber(Cell(parts, 1)))

\* The comparator of the recent-tests sort, dateB - dateA, is negative: a
\* NaN result counts as 0.
RecentBefore(tests) ==
    [a \in Elements(tests), b \in Elements(tests) |->
        NumGt(DateOfTest(a.date), DateOfTest(b.date))]

\* Array.prototype.sort as V8 (Node.js) runs it on an array of fewer than 64
\* elements: the run at the start of the array is found (and reversed when
\* it is strictly descending), then every later element is put in place by
\* binary insertion.  Before[a, b] is comparefn(a, b) < 0.
RECURSIVE RunEnd(_, _, _, _)
RunEnd(Before, arr, descending, idx) ==
    IF idx > Len(arr) THEN Len(arr)
    ELSE IF Before[arr[idx], arr[idx - 1]] = descending
         THEN RunEnd(Before, arr, descending, idx + 1)
         ELSE idx - 1

RECURSIVE Reverse(_)
Reverse(arr) == IF Len(arr) = 0 THEN <<>> ELSE Reverse(Tail(arr)) \o <<Head(arr)>>

RECURSIVE BinarySearch(_, _, _, _, _)
BinarySearch(Before, arr, pivot, left, right) ==
    IF left >= right THEN left
    ELSE
    LET mid == left + ((right - left) \div 2)
    IN  IF Before[pivot, arr[mid]]
        THEN BinarySearch(Before, arr, pivot, left, mid)
        ELSE BinarySearch(Before, arr, pivot, mid + 1, right)

RECURSIVE BinaryInsertionSort(_, _, _)
BinaryInsertionSort(Before, arr, start) ==
    IF start > Len(arr) THEN arr
    ELSE
    LET pivot == arr[start]
        left == BinarySearch(Before, arr, pivot, 1, start)
        placed == SubSeq(arr, 1, left - 1) \o <<pivot>> \o SubSeq(arr, left, start - 1)
                  \o SubSeq(arr, start + 1, Len(arr))
    IN  BinaryInsertionSort(Before, placed, start + 1)

sort(Before, arr) ==
    IF Len(arr) < 2 THEN arr
    ELSE
    LET descending == Before[arr[2], arr[1]]
        run == RunEnd(Before, arr, descending, 3)
        made == IF descending
                THEN Reverse(SubSeq(arr, 1, run)) \o SubSeq(arr, run + 1, Len(arr))
                ELSE arr
    IN  BinaryInsertionSort(Before, made, run + 1)

\* arr.slice(0, n)
slice0(arr, n) == SubSeq(arr, 1, IF Len(arr) < n THEN Len(arr) ELSE n)

(***************************************************************************)
(* Numbers as text                                                         *)
(***************************************************************************)

RECURSIVE NatToString(_)
NatToString(k) ==
    IF k < 10 THEN CharAt(DigitChars, k + 1)
    ELSE NatToString(k \div 10) \o CharAt(DigitChars, (k % 10) + 1)

\* `${x}` for a whole number or NaN (what parseInt returns).
NumToString(v) ==
    IF v.nan THEN "NaN"
    ELSE IF v.n < 0 THEN "-" \o NatToString(-v.n)
    ELSE NatToString(v.n)

\* x.toFixed(1): the nearest multiple of 0.1, the larger one on a tie, with
\* the sign of x kept; 'NaN' for NaN.
toFixed1(v) ==
    IF v.nan THEN "NaN"
    ELSE
    LET tenths == (20 * Abs(v.n) + v.d) \div (2 * v.d)
    IN  (IF v.n < 0 THEN "-" ELSE "") \o NatToString(tenths \div 10) \o "."
        \o NatToString(tenths % 10)

(***************************************************************************)
(* processStudentData of src/app.js                                        *)
(*                                                                         *)
(* sheetsData holds one value range per sheet: [hasValues, values].  The   *)
(* Sheets API leaves `values` out of the range of an empty sheet; reading  *)
(* values[0] of such a range throws a TypeError.  The result is            *)
(* [threw, error, doc]: the message of what was thrown, or the document    *)
(* (a sequence of one element) that was returned.                          *)
(***************************************************************************)

SheetNames == {"students", "subjects", "activities", "assignments", "tests",
               "corrections", "attendance"}

NotFoundMessage(admissionNumber) ==
    "Student with admission number " \o admissionNumber \o " not found"

TypeErrorMessage == "TypeError: Cannot read properties of undefined"

Thrown(message) == [threw |-> TRUE, error |-> message, doc |-> <<>>]

Returned(document) == [threw |-> FALSE, error |-> "", doc |-> <<document>>]

\* sheet.values[0] || []
HeadersOf(sheet) == IF Len(sheet.values) = 0 THEN <<>> ELSE sheet.values[1]

\* The projection of one test for the dashboard.
RecentTestOf(test) ==
    [subject |-> test.subject,
     name |-> test.name,
     date |-> test.date,
     marks |-> NumToString(test.marksObtained) \o "/" \o NumToString(test.maxMarks),
     percentage |-> test.percentage,
     grade |-> test.grade]

RECURSIVE MapRecentTest(_)
MapRecentTest(tests) ==
    IF Len(tests) = 0 THEN <<>>
    ELSE <<RecentTestOf(Head(tests))>> \o MapRecentTest(Tail(tests))

\* The number of recent tests shown.
RecentCount == 5

\* [...tests].sort(by date, newest first).slice(0, 5).map(projection)
RecentTestsOf(tests) == MapRecentTest(slice0(sort(RecentBefore(tests), tests), RecentCount))

\* The count taken as a remainder: every assignment that is not in the other
\* of the two buckets 'complete' and 'pending'.
CountStatusRest(assignments, status) ==
    Len(assignments) - Cardinality({i \in 1..Len(assignments) :
                                      assignments[i].status \in {"complete", "pending"} \ {status}})

\* The tests array after a sort applied to the array itself.
TestsSortedInPlace(tests) == sort(RecentBefore(tests), tests)

\* The tests array after recentTests was computed: the sort runs on the
\* copy [...tests], so the array is as it was decoded.
TestsAfterRecent(tests) == tests

\* assignments.filter(a => a.status === status).length
CountStatus(assignments, status) ==
    Cardinality({i \in 1..Len(assignments) : assignments[i].status = status})

\* attendance.reduce((sum, month) => sum + month.percentage, 0)
RECURSIVE SumPercentage(_)
SumPercentage(attendance) ==
    IF Len(attendance) = 0 THEN Num(0)
    ELSE NumAdd(SumPercentage(SubSeq(attendance, 1, Len(attendance) - 1)),
                attendance[Len(attendance)].percentage)

overallAttendance(attendance) ==
    IF Len(attendance) > 0
    THEN NumDiv(SumPercentage(attendance), Num(Len(attendance)))
    ELSE Num(0)

processStudentData(sheetsData, admissionNumber) ==
    IF \E name \in SheetNames : ~sheetsData[name].hasValues THEN Thrown(TypeErrorMessage)
    ELSE
    LET Headers(name) == HeadersOf(sheetsData[name])
        Row(name) == findStudentByAdmissionNo(sheetsData[name].values, Headers(name),
                                              admissionNumber)
        studentData == Row("students")
        Info(headerName) == getValueByHeader(studentData, Headers("students"), headerName)
        subjectProgress == processHorizontalSubjects(Headers("subjects"), Row("subjects"))
        assignments == processHorizontalAssignments(Headers("assignments"), Row("assignments"))
        tests == processHorizontalTests(Headers("tests"), Row("tests"))
        attendance == processHorizontalAttendance(Headers("attendance"), Row("attendance"))
    IN  IF ~studentData.found THEN Thrown(NotFoundMessage(admissionNumber))
        ELSE Returned(
            [studentInfo |-> [name |-> Info("name"),
                              class |-> Info("class"),
                              admissionNo |-> Info("admission_no"),
                              rollNo |-> Info("roll_no"),
                              dob |-> Info("dob"),
                              contact |-> Info("contact"),
                              photoUrl |-> OrElse(Info("photo_url"), "/api/placeholder/120/120")],
             subjectProgress |-> subjectProgress,
             recentTests |-> RecentTestsOf(tests),
             subjectActivities |-> processHorizontalActivities(Headers("activities"),
                                                               Row("activities")),
             assignments |-> assignments,
             tests |-> TestsAfterRecent(tests),
             corrections |-> processHorizontalCorrections(Headers("corrections"),
                                                          Row("corrections")),
             attendance |-> attendance,
             summary |-> [totalSubjects |-> Len(subjectProgress),
                          completedAssignments |-> CountStatus(assignments, "complete"),
                          pendingAssignments |-> CountStatus(assignments, "pending"),
                          attendancePercentage |->
                              toFixed1(overallAttendance(attendance)) \o "%"]])

(***************************************************************************)
(* The session-based variant, src/unnamed/part_000: one row per record.    *)
(***************************************************************************)

\* The first i in from..Len(values) whose row has admissionNo at
\* admissionIndex, 0 when there is none; a row is always an array.
findStudentByAdmissionNoSession(values, headers, admissionNo) ==
    LET admissionIndex == findIndex(headers, "admission_no")
    IN  IF admissionIndex = 0 THEN Null
        ELSE
        LET i == ScanRows(values, admissionIndex, admissionNo, 2)
        IN  IF i = 0 THEN Null ELSE Found(values[i])

\* values.slice(1).filter(row => row[admissionIndex] === admissionNo)
RECURSIVE FilterRows(_, _, _, _)
FilterRows(values, admissionIndex, admissionNo, i) ==
    IF i > Len(values) THEN <<>>
    ELSE (IF Cell(values[i], admissionIndex) = admissionNo THEN <<values[i]>> ELSE <<>>)
         \o FilterRows(values, admissionIndex, admissionNo, i + 1)

filterSheetByAdmissionNo(values, headers, admissionNo) ==
    LET admissionIndex == findIndex(headers, "admission_no")
    IN  IF admissionIndex = 0 THEN <<>>
        ELSE FilterRows(values, admissionIndex, admissionNo, 2)

getValueByHeaderSession(row, headers, headerName) ==
    LET index == findIndex(headers, toLowerCase(headerName))
    IN  IF index # 0 THEN OrElse(Cell(row, index), "") ELSE ""

\* new Date(text) for a text 'yyyy-mm-dd' (the ISO date form, read as UTC
\* midnight, with a day of 01..31 in any month), in days; NaN for ''.  The
\* other texts are read by the engine's own fallback parser: the sheets of
\* this model hold no such date.
DateOfString(text) ==
    LET parts == split(text, "-")
    IN  IF /\ Len(parts) = 3
           /\ Len(parts[1]) = 4 /\ Len(parts[2]) = 2 /\ Len(parts[3]) = 2
           /\ AllDigits(parts[1]) /\ AllDigits(parts[2]) /\ AllDigits(parts[3])
           /\ DigitsValue(parts[2]) \in 1..12
           /\ DigitsValue(parts[3]) \in 1..31
        THEN Num(DayNumber(DigitsValue(parts[1]), DigitsValue(parts[2]) - 1,
                           DigitsValue(parts[3])))
        ELSE NaN

\* new Date(date.split('-').reverse().join('-'))
DateOfRow(row, headers) ==
    DateOfString(join(Reverse(split(getValueByHeaderSession(row, headers, "date"), "-")), "-"))

\* rows.map(One), One[row] being the record built from a row.
RECURSIVE MapRows(_, _)
MapRows(One, rows) ==
    IF Len(rows) = 0 THEN <<>> ELSE <<One[Head(rows)]>> \o MapRows(One, Tail(rows))

\* attendance.reduce(...) / attendance.length, with no guard: 0 / 0 is NaN.
overallAttendanceSession(attendance) ==
    NumDiv(SumPercentage(attendance), Num(Len(attendance)))

processStudentDataSession(sheetsData, admissionNumber) ==
    IF \E name \in SheetNames : ~sheetsData[name].hasValues THEN Thrown(TypeErrorMessage)
    ELSE IF Len(sheetsData["students"].values) = 0 THEN Thrown(TypeErrorMessage)
    ELSE
    LET Headers(name) == sheetsData[name].values[1]
        Rows(name) == filterSheetByAdmissionNo(sheetsData[name].values, Headers(name),
                                               admissionNumber)
        Get(name, row, headerName) == getValueByHeaderSession(row, Headers(name), headerName)
        studentData == findStudentByAdmissionNoSession(sheetsData["students"].values,
                                                       Headers("students"), admissionNumber)
        Info(headerName) == Get("students", studentData.row, headerName)
        Subject[row \in Elements(Rows("subjects"))] ==
            [subject |-> Get("subjects", row, "subject"),
             progress |-> parseFloat(Get("subjects", row, "progress")),
             grade |-> Get("subjects", row, "grade")]
        RecentBeforeRow ==
            [a \in Elements(Rows("tests")), b \in Elements(Rows("tests")) |->
                NumGt(DateOfRow(a, Headers("tests")), DateOfRow(b, Headers("tests")))]
        Recent[row \in Elements(Rows("tests"))] ==
            [subject |-> Get("tests", row, "subject"),
             name |-> Get("tests", row, "name"),
             date |-> Get("tests", row, "date"),
             marks |-> Get("tests", row, "marks_obtained") \o "/"
                      \o Get("tests", row, "max_marks"),
             percentage |-> parseFloat(Get("tests", row, "percentage")),
             grade |-> Get("tests", row, "grade")]
        Activity[row \in Elements(Rows("activities"))] ==
            [subject |-> Get("activities", row, "subject"),
             activity |-> Get("activities", row, "activity"),
             date |-> Get("activities", row, "date"),
             description |-> Get("activities", row, "description"),
             status |-> Get("activities", row, "status")]
        Assignment[row \in Elements(Rows("assignments"))] ==
            [subject |-> Get("assignments", row, "subject"),
             name |-> Get("assignments", row, "name"),
             assignedDate |-> Get("assignments", row, "assigned_date"),
             dueDate |-> Get("assignments", row, "due_date"),
             status |-> Get("assignments", row, "status"),
             remarks |-> Get("assignments", row, "remarks")]
        Test[row \in Elements(Rows("tests"))] ==
            [subject |-> Get("tests", row, "subject"),
             name |-> Get("tests", row, "name"),
             date |-> Get("tests", row, "date"),
             maxMarks |-> parseInt(Get("tests", row, "max_marks")),
             marksObtained |-> parseInt(Get("tests", row, "marks_obtained")),
             percentage |-> parseFloat(Get("tests", row, "percentage")),
             grade |-> Get("tests", row, "grade")]
        Correction[row \in Elements(Rows("corrections"))] ==
            [subject |-> Get("corrections", row, "subject"),
             copyType |-> Get("corrections", row, "copy_type"),
             date |-> Get("corrections", row, "date"),
             improvements |-> Get("corrections", row, "improvements"),
             remarks |-> Get("corrections", row, "remarks")]
        Month[row \in Elements(Rows("attendance"))] ==
            [month |-> Get("attendance", row, "month"),
             workingDays |-> parseInt(Get("attendance", row, "working_days")),
             present |-> parseInt(Get("attendance", row, "present")),
             absent |-> parseInt(Get("attendance", row, "absent")),
             percentage |-> parseFloat(Get("attendance", row, "percentage"))]
        subjectProgress == MapRows(Subject, Rows("subjects"))
        assignments == MapRows(Assignment, Rows("assignments"))
        attendance == MapRows(Month, Rows("attendance"))
    IN  IF ~studentData.found THEN Thrown(NotFoundMessage(admissionNumber))
        ELSE IF \E name \in SheetNames : Len(sheetsData[name].values) = 0
             THEN Thrown(TypeErrorMessage)
        ELSE Returned(
            [studentInfo |-> [name |-> Info("name"),
                              class |-> Info("class"),
                              admissionNo |-> Info("admission_no"),
                              rollNo |-> Info("roll_no"),
                              dob |-> Info("dob"),
                              contact |-> Info("contact"),
                              photoUrl |-> OrElse(Info("photo_url"), "/api/placeholder/120/120")],
             subjectProgress |-> subjectProgress,
             recentTests |-> MapRows(Recent, slice0(sort(RecentBeforeRow, Rows("tests")),
                                                    RecentCount)),
             subjectActivities |-> MapRows(Activity, Rows("activities")),
             assignments |-> assignments,
             tests |-> MapRows(Test, Rows("tests")),
             corrections |-> MapRows(Correction, Rows("corrections")),
             attendance |-> attendance,
             summary |-> [totalSubjects |-> Len(subjectProgress),
                          completedAssignments |-> CountStatus(assignments, "complete"),
                          pendingAssignments |-> CountStatus(assignments, "pending"),
                          attendancePercentage |->
                              toFixed1(overallAttendanceSession(attendance)) \o "%"]])

(***************************************************************************)
(* The spreadsheets the servers may find at the Sheets API.  Each family   *)
(* varies one sheet of a base spreadsheet.                                 *)
(***************************************************************************)

\* Bounds: the data rows of a Students sheet, the tests of a Tests sheet.
MaxRows == 3
MaxTests == 6

VR(values) == [hasValues |-> TRUE, values |-> values]

NoValues == [hasValues |-> FALSE, values |-> <<>>]

With(base, name, range) == [base EXCEPT ![name] = range]

SeqsUpTo(S, n) == UNION {[1..k -> S] : k \in 0..n}

BaseApp ==
    [students |-> VR(<<<<"admission_no", "name", "class">>,
                       <<"10234", "Asha", "5A">>, <<"10235", "Ravi", "5B">>>>),
     subjects |-> VR(<<<<"admission_no", "math_progress">>, <<"10234", "75">>>>),
     activities |-> VR(<<<<"admission_no", "math_activity1">>, <<"10234", "Model">>>>),
     assignments |-> VR(<<<<"admission_no", "math_assignment1">>, <<"10234", "Essay">>>>),
     tests |-> VR(<<<<"admission_no", "math_test1", "math_test1_date">>,
                    <<"10234", "Unit Test", "15-06-2020">>>>),
     corrections |-> VR(<<<<"admission_no", "math_correction1">>, <<"10234", "Notebook">>>>),
     attendance |-> VR(<<<<"admission_no", "april_working", "april_present">>,
                         <<"10234", "20", "18">>>>)]

\* Students sheets: the key column first, second (in another case) or absent;
\* rows with the key, with another key, twice the same key, and empty rows.
StudentHeaders == {<<"admission_no", "name">>, <<"Name", "Admission_No">>, <<"name", "roll_no">>}

StudentRows == {<<"10234", "Asha">>, <<"10234", "Bina">>, <<"Ravi", "10234">>,
                <<"10235", "10235">>, <<>>}

StudentsWorlds ==
    {With(BaseApp, "students", VR(<<h>> \o rows)) :
        h \in StudentHeaders, rows \in SeqsUpTo(StudentRows, MaxRows)}

\* Tests sheets with numeric satellites: one test with every cell varied, the
\* percentage column present or not, and a second test that a short row
\* leaves without cells, or with its name alone.
NumberCells == {"", "abc", "0", "50", "45"}
PercentCells == {"", "abc", "90", "87.5"}
NameCells == {"", "Unit Test"}

TestsHeadersFull ==
    <<"admission_no", "math_test1", "math_test1_max_marks", "math_test1_marks_obtained",
      "math_test1_percentage", "Social_Science_Test2", "social_science_test2_max_marks",
      "social_science_test2_marks_obtained">>

TestsHeadersNoPercent ==
    <<"admission_no", "math_test1", "math_test1_max_marks", "math_test1_marks_obtained",
      "Social_Science_Test2", "social_science_test2_max_marks",
      "social_science_test2_marks_obtained">>

TestTails == {<<>>, <<"Quiz">>, <<"Quiz", "20", "5">>}

TestsNumericWorlds ==
    {With(BaseApp, "tests",
          VR(<<TestsHeadersFull, <<"10234", name, max, got, pct>> \o tail>>)) :
        name \in NameCells, max \in NumberCells, got \in NumberCells,
        pct \in PercentCells, tail \in TestTails}
    \cup
    {With(BaseApp, "tests",
          VR(<<TestsHeadersNoPercent, <<"10234", name, max, got>> \o tail>>)) :
        name \in NameCells, max \in NumberCells, got \in NumberCells, tail \in TestTails}

\* Tests sheets with dated tests: up to MaxTests tests, each with a name and
\* a date that is empty, 2 January 2021 or 1 February 2021.
DateCells == {"", "02-01-2021", "01-02-2021"}

RECURSIVE DatedHeaders(_)
DatedHeaders(k) ==
    IF k = 0 THEN <<"admission_no">>
    ELSE DatedHeaders(k - 1)
         \o <<"math_test" \o NatToString(k), "math_test" \o NatToString(k) \o "_date">>

RECURSIVE DatedRow(_)
DatedRow(dates) ==
    IF Len(dates) = 0 THEN <<"10234">>
    ELSE DatedRow(SubSeq(dates, 1, Len(dates) - 1))
         \o <<"T" \o NatToString(Len(dates)), dates[Len(dates)]>>

TestsDatedWorlds ==
    {With(BaseApp, "tests", VR(<<DatedHeaders(Len(dates)), DatedRow(dates)>>)) :
        dates \in SeqsUpTo(DateCells, MaxTests)}

\* Attendance sheets: April with every cell varied, May after it, and a
\* period whose name has two words.
WorkingCells == {"", "abc", "0", "-3", "20", "25 days"}
PresentCells == {"", "x", "18"}
MonthPercentCells == {"", "abc", "90.25"}
MayCells == {"", "0", "24"}

AttendanceHeaders ==
    <<"admission_no", "April_Working", "april_present", "april_absent", "april_percent",
      "may_working", "may_present", "mid_term_working">>

AttendanceWorlds ==
    {With(BaseApp, "attendance",
          VR(<<AttendanceHeaders,
               <<"10234", working, present, "2", pct, may, "18">> \o tail>>)) :
        working \in WorkingCells, present \in PresentCells, pct \in MonthPercentCells,
        may \in MayCells, tail \in {<<>>, <<"40">>}}

\* Assignments sheets: three assignments, the status of each varied.
StatusCells == {"", "complete", "Complete", "pending", "late"}

AssignmentsHeaders ==
    <<"admission_no", "math_assignment1", "math_assignment1_status", "math_assignment2",
      "math_assignment2_status", "art_assignment1", "art_assignment1_status">>

AssignmentsWorlds ==
    {With(BaseApp, "assignments",
          VR(<<AssignmentsHeaders, <<"10234", "Essay", s1, "Sums", s2, "Poster", s3>>>>)) :
        s1 \in StatusCells, s2 \in StatusCells, s3 \in StatusCells}

\* Subjects, Activities and Corrections sheets: the primary cell varied.
ProgressCells == {"", "abc", "75", "80.5"}

SubjectsWorlds ==
    {With(BaseApp, "subjects",
          VR(<<<<"admission_no", "math_progress", "math_grade", "Social_Science_Progress">>,
               <<"10234", p1, grade>> \o tail>>)) :
        p1 \in ProgressCells, grade \in {"", "A"}, tail \in {<<>>, <<"60">>}}

ActivitiesWorlds ==
    {With(BaseApp, "activities",
          VR(<<<<"admission_no", "math_activity1", "math_activity1_date",
                 "math_activity1_status", "art_activity2", "art_activity3">>,
               <<"10234", name, "01-02-2021", status>> \o tail>>)) :
        name \in {"", "Model"}, status \in {"", "Done"}, tail \in {<<>>, <<"Collage">>}}

CorrectionsWorlds ==
    {With(BaseApp, "corrections",
          VR(<<<<"admission_no", "math_correction1", "math_correction1_remarks",
                 "art_correction2", "art_correction3">>,
               <<"10234", copy, remarks>> \o tail>>)) :
        copy \in {"", "Notebook"}, remarks \in {"", "Neat"}, tail \in {<<>>, <<"Sketchbook">>}}

\* A sheet that is empty (no `values`), has no row at all, has no key column
\* or has no row of the student.
BrokenRanges ==
    {NoValues, VR(<<>>), VR(<<<<"name">>, <<"10234">>>>),
     VR(<<<<"admission_no">>, <<"10235">>>>)}

BrokenWorlds == {With(BaseApp, name, range) : name \in SheetNames, range \in BrokenRanges}

AppWorlds ==
    StudentsWorlds \cup TestsNumericWorlds \cup TestsDatedWorlds \cup AttendanceWorlds
    \cup AssignmentsWorlds \cup SubjectsWorlds \cup ActivitiesWorlds \cup CorrectionsWorlds
    \cup BrokenWorlds

\* The spreadsheets of the session-based variant: one row per record.
BaseSession ==
    [students |-> VR(<<<<"admission_no", "name", "class">>,
                       <<"10234", "Asha", "5A">>, <<"10235", "Ravi", "5B">>>>),
     subjects |-> VR(<<<<"admission_no", "subject", "progress", "grade">>,
                       <<"10234", "Math", "75", "A">>>>),
     activities |-> VR(<<<<"admission_no", "subject", "activity", "date", "description",
                          "status">>,
                         <<"10234", "Math", "Model", "01-02-2021", "", "done">>>>),
     assignments |-> VR(<<<<"admission_no", "subject", "name", "assigned_date", "due_date",
                           "status", "remarks">>,
                          <<"10234", "Math", "Essay", "", "", "complete", "">>>>),
     tests |-> VR(<<<<"admission_no", "subject", "name", "date", "max_marks",
                     "marks_obtained", "percentage", "grade">>,
                    <<"10234", "Math", "Unit Test", "02-01-2021", "50", "45", "90", "A">>>>),
     corrections |-> VR(<<<<"admission_no", "subject", "copy_type", "date", "improvements",
                           "remarks">>,
                          <<"10234", "Math", "Notebook", "", "", "">>>>),
     attendance |-> VR(<<<<"admission_no", "month", "working_days", "present", "absent",
                          "percentage">>,
                         <<"10234", "April", "20", "18", "2", "90">>>>)]

SessionAttendanceRows ==
    {<<"10234", "April", "20", "18", "2", "90">>, <<"10234", "May", "24", "", "x", "87.5">>,
     <<"10234", "June", "", "", "", "">>, <<"10235", "April", "20", "20", "0", "100">>}

SessionTestRows ==
    {<<"10234", "Math", "T1", "02-01-2021", "50", "45", "90", "A">>,
     <<"10234", "Art", "T2", "01-02-2021", "abc", "", "", "">>,
     <<"10234", "Art", "T3", "", "20", "10", "50", "B">>}

SessionWorlds ==
    {With(BaseSession, "attendance", VR(<<BaseSession["attendance"].values[1]>> \o rows)) :
        rows \in SeqsUpTo(SessionAttendanceRows, 2)}
    \cup
    {With(BaseSession, "tests", VR(<<BaseSession["tests"].values[1]>> \o rows)) :
        rows \in SeqsUpTo(SessionTestRows, 3)}
    \cup
    {With(BaseSession, "students", VR(<<h \o <<"class">>>> \o rows)) :
        h \in StudentHeaders, rows \in SeqsUpTo(StudentRows, 2)}
    \cup
    {With(BaseSession, name, range) : name \in SheetNames, range \in BrokenRanges}

\* The admission numbers of the requests; Undefined is a request without one.
Admissions == {"10234", "99999", "1023", "admission_no", Undefined}

(***************************************************************************)
(* The servers                                                             *)
(***************************************************************************)

VARIABLES
    variant,    \* "app": src/app.js; "session": src/unnamed/part_000
    sheets,     \* the spreadsheet at the Sheets API
    session,    \* req.session of the one client (session variant)
    pc,         \* "idle", or "fetch": a request waits at await axios.get(url)
    admission,  \* admissionNumber of the request being served
    payload,    \* response.data of the fetch: <<>> or one sheetsData
    response,   \* the last response sent
    inflight    \* src/app.js with two requests at a time: the locals of each

vars == <<variant, sheets, session, pc, admission, payload, response, inflight>>

NoSession == [isAuthenticated |-> FALSE, admissionNumber |-> Undefined]

NoResponse ==
    [status |-> 0, error |-> "", success |-> FALSE, credentials |-> FALSE, doc |-> <<>>]

ErrorResponse(status, message) == [NoResponse EXCEPT !.status = status, !.error = message]

\* res.json(processedData)
DocResponse(doc) == [NoResponse EXCEPT !.status = 200, !.doc = doc]

SuccessResponse == [NoResponse EXCEPT !.status = 200, !.success = TRUE]

CredentialsResponse == [NoResponse EXCEPT !.status = 200, !.credentials = TRUE]

\* /^\d{5}$/.test(admissionNumber); the text of undefined is 'undefined'.
FiveDigits(admissionNumber) ==
    admissionNumber # Undefined /\ Len(admissionNumber) = 5 /\ AllDigits(admissionNumber)

\* The response of src/app.js to a request whose fetch resolved with
\* sheetsData: the document, or the catch block's answer when
\* processStudentData throws.
ResponseTo(sheetsData, admissionNumber) ==
    LET processed == processStudentData(sheetsData, admissionNumber)
    IN  IF processed.threw
        THEN ErrorResponse(500, "Failed to fetch data from Google Sheets")
        ELSE DocResponse(processed.doc)

\* Two requests that src/app.js may be serving at a time, and the locals of
\* an invocation of the handler: where it stands, req.query.admission, the
\* constant admissionNumber, response.data, and what it sent.  interleaved
\* records that the other request took a step while this one was waiting.
Requests == {1, 2}

IdleRequest ==
    [pc |-> "idle", query |-> Undefined, admission |-> Undefined, payload |-> <<>>,
     response |-> NoResponse, interleaved |-> FALSE]

\* The invocation whose locals a continuation would read if admissionNumber
\* were one variable written by every request: the other request's.
ClosureOfOther(r) == 3 - r

\* The invocation whose locals the continuation of request r reads after the
\* await: the handler declares them with const inside the callback, so its
\* own.
Closure(r) == r

Init ==
    /\ variant \in {"app", "session"}
    /\ sheets \in (IF variant = "app" THEN AppWorlds ELSE SessionWorlds)
    /\ session = NoSession
    /\ pc = "idle"
    /\ admission = Undefined
    /\ payload = <<>>
    /\ response = NoResponse
    /\ inflight = [r \in Requests |-> IdleRequest]

\* src/app.js, GET /api/student-data up to the await.
Receive(admissionNumber) ==
    /\ variant = "app"
    /\ pc = "idle"
    /\ admission' = admissionNumber
    /\ payload' = <<>>
    /\ IF ~Truthy(admissionNumber) \/ ~FiveDigits(admissionNumber)
       THEN /\ response' = ErrorResponse(400, "Invalid admission number. Must be 5 digits.")
            /\ pc' = "idle"
       ELSE /\ response' = NoResponse
            /\ pc' = "fetch"
    /\ UNCHANGED <<inflight, variant, sheets, session>>

\* The fetch resolves: the rest of the try block, and the catch block when
\* processStudentData throws.
FetchResolved ==
    /\ variant = "app"
    /\ pc = "fetch"
    /\ payload' = <<sheets>>
    /\ response' = ResponseTo(sheets, admission)
    /\ pc' = "idle"
    /\ UNCHANGED <<inflight, variant, sheets, session, admission>>

\* The fetch rejects: the catch block.
FetchRejected ==
    /\ variant = "app"
    /\ pc = "fetch"
    /\ payload' = <<>>
    /\ response' = ErrorResponse(500, "Failed to fetch data from Google Sheets")
    /\ pc' = "idle"
    /\ UNCHANGED <<inflight, variant, sheets, session, admission>>

\* A middleware that lets every request through.
authenticateAnyone(sess) == TRUE

\* The authenticate middleware of src/unnamed/part_000: next() when
\* req.session.isAuthenticated is truthy, else 401.
authenticate(sess) == sess.isAuthenticated

\* src/unnamed/part_000, POST /api/login
Login(admissionNumber) ==
    /\ variant = "session"
    /\ pc = "idle"
    /\ IF ~FiveDigits(admissionNumber)
       THEN /\ response' = ErrorResponse(400, "Invalid admission number format")
            /\ UNCHANGED session
       ELSE /\ session' = [isAuthenticated |-> TRUE, admissionNumber |-> admissionNumber]
            /\ response' = SuccessResponse
    /\ payload' = <<>>
    /\ UNCHANGED <<inflight, variant, sheets, pc, admission>>

\* POST /api/logout: the session is destroyed; when the store fails to
\* remove it, the session stays where it is and the answer is 500.
Logout ==
    /\ variant = "session"
    /\ pc = "idle"
    /\ \/ /\ session' = NoSession
          /\ response' = SuccessResponse
       \/ /\ session' = session
          /\ response' = ErrorResponse(500, "Failed to logout")
    /\ payload' = <<>>
    /\ UNCHANGED <<inflight, variant, sheets, pc, admission>>

\* GET /api/get-sheets-credentials, behind authenticate
GetCredentials ==
    /\ variant = "session"
    /\ pc = "idle"
    /\ response' = IF authenticate(session) THEN CredentialsResponse
                   ELSE ErrorResponse(401, "Not authenticated")
    /\ payload' = <<>>
    /\ UNCHANGED <<inflight, variant, sheets, session, pc, admission>>

\* GET /api/student-data, behind authenticate, up to the await.
ReceiveSession(queryAdmission) ==
    /\ variant = "session"
    /\ pc = "idle"
    /\ payload' = <<>>
    /\ IF ~authenticate(session)
       THEN /\ response' = ErrorResponse(401, "Not authenticated")
            /\ pc' = "idle"
            /\ UNCHANGED admission
       ELSE /\ admission' = OrElse(queryAdmission, session.admissionNumber)
            /\ response' = NoResponse
            /\ pc' = "fetch"
    /\ UNCHANGED <<inflight, variant, sheets, session>>

FetchResolvedSession ==
    /\ variant = "session"
    /\ pc = "fetch"
    /\ payload' = <<sheets>>
    /\ LET processed == processStudentDataSession(sheets, admission)
       IN  response' = IF processed.threw
                       THEN ErrorResponse(500, "Failed to fetch data")
                       ELSE DocResponse(processed.doc)
    /\ pc' = "idle"
    /\ UNCHANGED <<inflight, variant, sheets, session, admission>>

FetchRejectedSession ==
    /\ variant = "session"
    /\ pc = "fetch"
    /\ payload' = <<>>
    /\ response' = ErrorResponse(500, "Failed to fetch data")
    /\ pc' = "idle"
    /\ UNCHANGED <<inflight, variant, sheets, session, admission>>

Next ==
    \/ \E a \in Admissions : Receive(a)
    \/ FetchResolved
    \/ FetchRejected
    \/ \E a \in Admissions : Login(a)
    \/ Logout
    \/ GetCredentials
    \/ \E a \in Admissions : ReceiveSession(a)
    \/ FetchResolvedSession
    \/ FetchRejectedSession

Spec == Init /\ [][Next]_vars

(***************************************************************************)
(* src/app.js serving two requests at a time.  The handler is async: a     *)
(* request waits at await axios.get(url) while the other one is received   *)
(* or answered.  Each fetch resolves with the spreadsheet as it is then.   *)
(***************************************************************************)

\* The spreadsheets of the two-request runs.
ConcurrentWorlds ==
    {BaseApp,
     With(BaseApp, "students", VR(<<<<"admission_no", "name">>, <<"10235", "Ravi">>>>)),
     With(BaseApp, "tests", VR(<<<<"admission_no", "math_test1">>, <<"10235", "Quiz">>>>)),
     With(BaseApp, "attendance", NoValues)}

\* The identifiers of the two-request runs: two students and a malformed one.
ConcurrentAdmissions == {"10234", "10235", "1023"}

\* The single-request variables, which the two-request runs leave alone.
single == <<variant, sheets, session, pc, admission, payload, response>>

\* The other request is marked when it is waiting at its fetch.
Mark(state, r) ==
    [q \in Requests |->
        IF q # r /\ state[q].pc = "fetch" THEN [state[q] EXCEPT !.interleaved = TRUE]
        ELSE state[q]]

\* GET /api/student-data of request r up to the await.
ReceiveConcurrent(r, admissionNumber) ==
    /\ inflight[r].pc = "idle"
    /\ inflight' =
          Mark([inflight EXCEPT ![r] =
                   IF ~Truthy(admissionNumber) \/ ~FiveDigits(admissionNumber)
                   THEN [IdleRequest EXCEPT
                            !.query = admissionNumber,
                            !.admission = admissionNumber,
                            !.response = ErrorResponse(400,
                                             "Invalid admission number. Must be 5 digits.")]
                   ELSE [IdleRequest EXCEPT
                            !.pc = "fetch",
                            !.query = admissionNumber,
                            !.admission = admissionNumber]], r)
    /\ UNCHANGED single

\* The fetch of request r resolves with the spreadsheet as it is now.
FetchResolvedConcurrent(r) ==
    /\ inflight[r].pc = "fetch"
    /\ \E sheetsData \in ConcurrentWorlds :
          inflight' =
              Mark([inflight EXCEPT
                       ![r].pc = "idle",
                       ![r].payload = <<sheetsData>>,
                       ![r].response =
                           ResponseTo(sheetsData, inflight[Closure(r)].admission)], r)
    /\ UNCHANGED single

\* The fetch of request r rejects.
FetchRejectedConcurrent(r) ==
    /\ inflight[r].pc = "fetch"
    /\ inflight' =
          Mark([inflight EXCEPT
                   ![r].pc = "idle",
                   ![r].payload = <<>>,
                   ![r].response =
                       ErrorResponse(500, "Failed to fetch data from Google Sheets")], r)
    /\ UNCHANGED single

InitConcurrent ==
    /\ variant = "app"
    /\ sheets = BaseApp
    /\ session = NoSession
    /\ pc = "idle"
    /\ admission = Undefined
    /\ payload = <<>>
    /\ response = NoResponse
    /\ inflight = [r \in Requests |-> IdleRequest]

NextConcurrent ==
    \/ \E r \in Requests : \E a \in ConcurrentAdmissions : ReceiveConcurrent(r, a)
    \/ \E r \in Requests : FetchResolvedConcurrent(r)
    \/ \E r \in Requests : FetchRejectedConcurrent(r)

SpecConcurrent == InitConcurrent /\ [][NextConcurrent]_vars

(***************************************************************************)
(* What the claims speak of                                                *)
(***************************************************************************)

\* The last request was a data request that was served from a fetched
\* payload (the payload of a request is gone when another one is handled).
Served == pc = "idle" /\ payload # <<>>

\* The request was answered with a document.
Answered == Served /\ response.status = 200 /\ response.doc # <<>>

TheDoc == response.doc[1]

\* The header row and the student's row of a sheet of the payload, as
\* src/app.js finds them.
PayloadHeaders(name) == HeadersOf(payload[1][name])

PayloadRow(name) ==
    findStudentByAdmissionNo(payload[1][name].values, PayloadHeaders(name), admission)

\* The least element of a non-empty set of numbers.
Least(S) == CHOOSE i \in S : \A j \in S : i <= j

\* The row the Row Locator is to return: the first data row (never row 1,
\* the header) whose cell in the first column named 'admission_no', in any
\* case, is the key; Null when there is no such column or no such row.
LocateSpec(values, keyValue) ==
    LET keyColumns == IF Len(values) = 0 THEN {}
                      ELSE {c \in 1..Len(values[1]) : toLowerCase(values[1][c]) = "admission_no"}
        matching == {i \in 2..Len(values) : Cell(values[i], Least(keyColumns)) = keyValue}
    IN  IF keyColumns = {} \/ matching = {} THEN Null ELSE Found(values[Least(matching)])

\* C1: the Row Locator returns the first data row, never the header row,
\* whose cell in the case-insensitively matched 'admission_no' column equals
\* the key exactly, and null exactly when the column is absent or no data row
\* has an equal cell; in src/app.js for every sheet of the payload, in the
\* session variant for the Students sheet (with its header row).  A document
\* is sent only for a key that was located, and carries that key.
C1_RowLocator ==
    /\ (Served /\ variant = "app") =>
          \A name \in SheetNames :
              payload[1][name].hasValues =>
                  PayloadRow(name) = LocateSpec(payload[1][name].values, admission)
    /\ (Served /\ variant = "session") =>
          LET values == payload[1]["students"].values
          IN  Len(values) >= 1 =>
                  findStudentByAdmissionNoSession(values, values[1], admission)
                      = LocateSpec(values, admission)
    /\ Answered =>
          /\ LocateSpec(payload[1]["students"].values, admission).found
          /\ TheDoc.studentInfo.admissionNo = admission

\* C1 witness: a document was sent for a student whose row is neither the
\* first data row nor the only row with the key.
C1_Witness ==
    /\ Answered
    /\ variant = "app"
    /\ LET values == payload[1]["students"].values
           k == findIndex(values[1], "admission_no")
       IN  /\ k # 0
           /\ \E i, j \in 3..Len(values) :
                 /\ i < j
                 /\ Cell(values[i], k) = admission
                 /\ Cell(values[j], k) = admission
                 /\ \A h \in 2..(i - 1) : Cell(values[h], k) # admission
                 /\ TheDoc.studentInfo.name = Cell(values[i], findIndex(values[1], "name"))
                 /\ TheDoc.studentInfo.name # Cell(values[j], findIndex(values[1], "name"))

\* The response sent when the fetch of the sheet payload fails.
FetchFailureResponse ==
    IF variant = "app" THEN ErrorResponse(500, "Failed to fetch data from Google Sheets")
    ELSE ErrorResponse(500, "Failed to fetch data")

\* C2: when the identifier matches no row of the Students sheet, no document
\* is produced and the caller gets a failure it can tell from the failure of
\* the fetch.
C2_NotFoundDistinguishable ==
    (/\ Served
     /\ variant = "app"
     /\ payload[1]["students"].hasValues
     /\ ~LocateSpec(payload[1]["students"].values, admission).found)
    => /\ response.doc = <<>>
       /\ response.status # 200
       /\ response # FetchFailureResponse

\* The primary columns of a category: the header indexes whose lower-cased
\* name has the category's pattern.
Categories == {"subjects", "activities", "assignments", "tests", "corrections", "attendance"}

CategoryTag ==
    [activities |-> "activity", assignments |-> "assignment", tests |-> "test",
     corrections |-> "correction"]

IsPrimary(category, header) ==
    IF category = "subjects" THEN endsWith(toLowerCase(header), "_progress")
    ELSE IF category = "attendance" THEN endsWith(toLowerCase(header), "_working")
    ELSE PatternMatches(toLowerCase(header), CategoryTag[category])

PrimaryColumns(category) ==
    {i \in 1..Len(PayloadHeaders(category)) : IsPrimary(category, PayloadHeaders(category)[i])}

\* The cell of the student's row under column i; Undefined past the end of
\* the row.
PayloadCell(category, i) == Cell(PayloadRow(category).row, i)

\* The collection of the document that a category's sheet is decoded into.
Collection(category) ==
    IF category = "subjects" THEN TheDoc.subjectProgress
    ELSE IF category = "activities" THEN TheDoc.subjectActivities
    ELSE IF category = "assignments" THEN TheDoc.assignments
    ELSE IF category = "tests" THEN TheDoc.tests
    ELSE IF category = "corrections" THEN TheDoc.corrections
    ELSE TheDoc.attendance

\* Entity e shows the cell text as its primary value.
ShowsPrimary(category, e, text) ==
    IF category = "subjects" THEN e.progress = parseFloat(text)
    ELSE IF category = "activities" THEN e.activity = text
    ELSE IF category = "assignments" THEN e.name = text
    ELSE IF category = "tests" THEN e.name = text
    ELSE IF category = "corrections" THEN e.copyType = text
    ELSE e.workingDays = parseInt(text)

\* C3: no ghost records.  In every category, each entity of the document
\* comes from a primary column whose cell in the student's row is there and
\* not empty, and there are no more entities than such columns.
C3_NoGhostRecords ==
    (Answered /\ variant = "app") =>
        \A category \in Categories :
            LET filled == {i \in PrimaryColumns(category) :
                              /\ PayloadRow(category).found
                              /\ PayloadCell(category, i) # Undefined
                              /\ PayloadCell(category, i) # ""}
                entities == Collection(category)
            IN  /\ Len(entities) <= Cardinality(filled)
                /\ \A k \in 1..Len(entities) :
                      \E i \in filled : ShowsPrimary(category, entities[k], PayloadCell(category, i))

\* C3 witness: a document whose sheets have a primary column with an empty
\* cell, a primary column past the end of the row, and a filled one that was
\* decoded.
C3_Witness ==
    /\ Answered
    /\ variant = "app"
    /\ \E category \in Categories :
          /\ Len(Collection(category)) >= 1
          /\ \E i \in PrimaryColumns(category) : PayloadCell(category, i) = ""
    /\ \E category \in Categories :
          /\ Len(Collection(category)) >= 1
          /\ \E i \in PrimaryColumns(category) : PayloadCell(category, i) = Undefined

\* The cell of the student's row under the first column of the category's
\* sheet with this lower-cased name; Undefined when there is no such column
\* or the row ends before it.
NamedCell(category, name) ==
    LET columns == {i \in 1..Len(PayloadHeaders(category)) :
                       toLowerCase(PayloadHeaders(category)[i]) = name}
    IN  IF columns = {} THEN Undefined ELSE PayloadCell(category, Least(columns))

\* The primary columns whose cell is there and not empty.
Filled(category) ==
    {i \in PrimaryColumns(category) :
        /\ PayloadRow(category).found
        /\ PayloadCell(category, i) # Undefined
        /\ PayloadCell(category, i) # ""}

\* The column-name stem of the group of primary column i: the whole name of
\* a test column, the month of a working-days column.
Stem(category, i) ==
    LET header == toLowerCase(PayloadHeaders(category)[i])
    IN  IF category = "attendance" THEN SubSeq(header, 1, Len(header) - Len("_working"))
        ELSE header

\* The group key of primary column i.
GroupKey(category, i) ==
    LET header == toLowerCase(PayloadHeaders(category)[i])
    IN  IF category = "attendance" THEN Stem(category, i)
        ELSE IF category = "subjects" THEN SubSeq(header, 1, Len(header) - Len("_progress"))
        ELSE PatternSubject(header, CategoryTag[category])

\* The percentage the derivation rule gives: the cell when it parses, else
\* the quotient when the denominator is positive, else 0.
RulePercentage(text, numerator, denominator) ==
    IF ~isNaN(parseFloat(text)) THEN parseFloat(text)
    ELSE IF NumGt(denominator, Num(0))
         THEN NumMul(NumDiv(numerator, denominator), Num(100))
         ELSE Num(0)

\* Test entity e is the one of primary column i.
IsTestOf(e, i) ==
    /\ e.name = PayloadCell("tests", i)
    /\ e.subject = capitalizeSubject(GroupKey("tests", i))

\* Month entity e is the one of primary column i.
IsMonthOf(e, i) ==
    /\ e.workingDays = parseInt(PayloadCell("attendance", i))
    /\ e.month = capitalizeFirstLetter(GroupKey("attendance", i))

\* C4: the percentage of every Test and AttendanceMonth is the parsed
\* percentage cell of its own group when that cell parses, else numerator /
\* denominator * 100 when the denominator is positive, else 0.
C4_PercentageRule ==
    (Answered /\ variant = "app") =>
        /\ \A k \in 1..Len(TheDoc.tests) :
              \E i \in Filled("tests") :
                  /\ IsTestOf(TheDoc.tests[k], i)
                  /\ TheDoc.tests[k].percentage =
                        RulePercentage(NamedCell("tests", Stem("tests", i) \o "_percentage"),
                                       TheDoc.tests[k].marksObtained, TheDoc.tests[k].maxMarks)
        /\ \A k \in 1..Len(TheDoc.attendance) :
              \E i \in Filled("attendance") :
                  /\ IsMonthOf(TheDoc.attendance[k], i)
                  /\ TheDoc.attendance[k].percentage =
                        RulePercentage(NamedCell("attendance", Stem("attendance", i) \o "_percent"),
                                       TheDoc.attendance[k].present,
                                       TheDoc.attendance[k].workingDays)

\* The indexes of S in increasing order.
RECURSIVE Ascending(_)
Ascending(S) == IF S = {} THEN <<>> ELSE <<Least(S)>> \o Ascending(S \ {Least(S)})

\* The working-days columns whose cell parses to a whole number of at least 1.
GoodMonths ==
    {i \in PrimaryColumns("attendance") :
        /\ PayloadRow("attendance").found
        /\ NumGt(parseInt(PayloadCell("attendance", i)), Num(0))}

\* C5: attendance gating.  Every AttendanceMonth has workingDays >= 1, and
\* the months of the document are exactly, in header order, the months whose
\* working-days cell parses to a positive number: a month whose cell is
\* empty, unparsable, zero or negative is dropped and the others are kept.
C5_AttendanceGating ==
    (Answered /\ variant = "app") =>
        LET months == TheDoc.attendance
            good == Ascending(GoodMonths)
        IN  /\ \A k \in 1..Len(months) :
                  /\ ~isNaN(months[k].workingDays)
                  /\ months[k].workingDays.d = 1
                  /\ months[k].workingDays.n >= 1
            /\ Len(months) = Len(good)
            /\ \A k \in 1..Len(months) : IsMonthOf(months[k], good[k])

\* C5 witness: a month whose working-days cell is there but does not count
\* was dropped, and a later month of the same row was decoded.
C5_Witness ==
    /\ Answered
    /\ variant = "app"
    /\ \E i \in Filled("attendance") \ GoodMonths :
          \E j \in GoodMonths :
              /\ i < j
              /\ \E k \in 1..Len(TheDoc.attendance) : IsMonthOf(TheDoc.attendance[k], j)

\* The number of assignments of the document with this status.
WithStatus(status) ==
    Cardinality({k \in 1..Len(TheDoc.assignments) : TheDoc.assignments[k].status = status})

\* C6: completedAssignments counts the assignments whose status is exactly
\* 'complete', pendingAssignments those whose status is exactly 'pending';
\* any other status is in neither count, so the two add up to the number of
\* assignments only when no assignment has another status.
C6_AssignmentCounts ==
    Answered =>
        LET summary == TheDoc.summary
            others == {k \in 1..Len(TheDoc.assignments) :
                          TheDoc.assignments[k].status \notin {"complete", "pending"}}
        IN  /\ summary.completedAssignments = WithStatus("complete")
            /\ summary.pendingAssignments = WithStatus("pending")
            /\ summary.completedAssignments + summary.pendingAssignments
                  = Len(TheDoc.assignments) - Cardinality(others)

\* C6 witness: a document with a complete, a pending and another assignment.
C6_Witness ==
    /\ Answered
    /\ TheDoc.summary.completedAssignments = 1
    /\ TheDoc.summary.pendingAssignments = 1
    /\ Len(TheDoc.assignments) = 3

\* text is digits, a point, one digit and '%'.
OneDecimalPercent(text) ==
    LET n == Len(text)
    IN  /\ n >= 4
        /\ CharAt(text, n) = "%"
        /\ IsDigit(CharAt(text, n - 1))
        /\ CharAt(text, n - 2) = "."
        /\ AllDigits(SubSeq(text, 1, n - 3))

\* The mean of the percentage fields of a non-empty collection.
MeanPercentage(months) == NumDiv(SumPercentage(months), Num(Len(months)))

\* C7: with no attendance month the summary's attendance percentage is
\* '0.0%'; with months it is their mean percentage with one decimal digit
\* and '%' (the text read back is within 0.05 of the mean); never 'NaN%'.
C7_AttendancePercentage ==
    Answered =>
        LET text == TheDoc.summary.attendancePercentage
            months == TheDoc.attendance
        IN  IF Len(months) = 0 THEN text = "0.0%"
            ELSE /\ OneDecimalPercent(text)
                 /\ LET shown == parseFloat(SubSeq(text, 1, Len(text) - 1))
                        gap == NumSub(shown, MeanPercentage(months))
                    IN  /\ NumLe(gap, Rat(1, 20))
                        /\ NumLe(Rat(-1, 20), gap)

\* The calendar day of a date text dd-mm-yyyy (any number of digits for the
\* day and the month, four for the year); NaN for any other text.
TrueDate(text) ==
    LET parts == split(text, "-")
    IN  IF /\ Len(parts) = 3
           /\ parts[1] # "" /\ parts[2] # "" /\ Len(parts[3]) = 4
           /\ AllDigits(parts[1]) /\ AllDigits(parts[2]) /\ AllDigits(parts[3])
           /\ DigitsValue(parts[2]) \in 1..12
           /\ DigitsValue(parts[1]) \in 1..31
        THEN Num(DayNumber(DigitsValue(parts[3]), DigitsValue(parts[2]) - 1,
                           DigitsValue(parts[1])))
        ELSE NaN

\* The dashboard shape of a test of the document.
Projection(test) ==
    [subject |-> test.subject,
     name |-> test.name,
     date |-> test.date,
     marks |-> (IF variant = "app"
                THEN NumToString(test.marksObtained) \o "/" \o NumToString(test.maxMarks)
                ELSE "" ),
     percentage |-> test.percentage,
     grade |-> test.grade]

\* The places in the tests collection of the entities that entry may be the
\* projection of.
Origins(entry) ==
    {p \in 1..Len(TheDoc.tests) :
        [Projection(TheDoc.tests[p]) EXCEPT !.marks = entry.marks] = entry}

\* C8: recentTests is in descending order of the true calendar date, and two
\* entries of the same date keep their decode order.
C8_RecentSorted ==
    (Answered /\ variant = "app") =>
        LET recent == TheDoc.recentTests
        IN  \A i, j \in 1..Len(recent) :
                i < j =>
                    /\ ~NumGt(TrueDate(recent[j].date), TrueDate(recent[i].date))
                    /\ TrueDate(recent[i].date) = TrueDate(recent[j].date) =>
                          \E p \in Origins(recent[i]) : \E q \in Origins(recent[j]) : p < q

\* C9: recentTests has min(5, number of tests) entries, each the projection
\* of an entity of its own of the tests collection, with marks
\* '<marksObtained>/<maxMarks>', and no test left out has a later date than
\* one that is in.
C9_RecentSelection ==
    (Answered /\ variant = "app") =>
        LET recent == TheDoc.recentTests
            tests == TheDoc.tests
            Copies(entry) == Cardinality({i \in 1..Len(recent) : recent[i] = entry})
        IN  /\ Len(recent) = IF Len(tests) < 5 THEN Len(tests) ELSE 5
            /\ \A i \in 1..Len(recent) :
                  /\ \E p \in 1..Len(tests) : recent[i] = Projection(tests[p])
                  /\ Copies(recent[i]) <= Cardinality(Origins(recent[i]))
            /\ \A p \in 1..Len(tests) :
                  Copies(Projection(tests[p])) < Cardinality(Origins(Projection(tests[p]))) =>
                      \A i \in 1..Len(recent) :
                          ~NumGt(TrueDate(tests[p].date), TrueDate(recent[i].date))

\* A numeric cell read as the decoder is to read it: 0 when the cell is
\* missing, empty or not a number.
IntCell(text) == IF isNaN(parseInt(text)) THEN Num(0) ELSE parseInt(text)

\* C10: a numeric satellite cell that is empty or not a number decodes to 0,
\* never to NaN, and the entity is emitted all the same: every filled primary
\* column of the Tests and Attendance sheets has its entity, with maxMarks,
\* marksObtained, present and absent read from their cells (0 for a cell
\* that does not parse) and a percentage that is a number.
C10_NumericDefaults ==
    (Answered /\ variant = "app") =>
        /\ \A i \in Filled("tests") :
              \E k \in 1..Len(TheDoc.tests) :
                  LET e == TheDoc.tests[k]
                  IN  /\ IsTestOf(e, i)
                      /\ e.maxMarks = IntCell(NamedCell("tests", Stem("tests", i) \o "_max_marks"))
                      /\ e.marksObtained =
                            IntCell(NamedCell("tests", Stem("tests", i) \o "_marks_obtained"))
                      /\ ~isNaN(e.percentage)
        /\ \A i \in GoodMonths :
              \E k \in 1..Len(TheDoc.attendance) :
                  LET e == TheDoc.attendance[k]
                  IN  /\ IsMonthOf(e, i)
                      /\ e.present = IntCell(NamedCell("attendance", Stem("attendance", i) \o "_present"))
                      /\ e.absent = IntCell(NamedCell("attendance", Stem("attendance", i) \o "_absent"))
                      /\ ~isNaN(e.percentage)

\* The satellites of each category, as <<field of the entity, column suffix>>.
TextSatellites ==
    [subjects |-> {<<"grade", "_grade">>},
     activities |-> {<<"date", "_date">>, <<"description", "_description">>},
     assignments |-> {<<"assignedDate", "_assigned_date">>, <<"dueDate", "_due_date">>,
                      <<"remarks", "_remarks">>},
     tests |-> {<<"date", "_date">>, <<"grade", "_grade">>},
     corrections |-> {<<"date", "_date">>, <<"improvements", "_improvements">>,
                      <<"remarks", "_remarks">>},
     attendance |-> {}]

NumericSatellites ==
    [subjects |-> {}, activities |-> {}, assignments |-> {}, corrections |-> {},
     tests |-> {<<"maxMarks", "_max_marks">>, <<"marksObtained", "_marks_obtained">>},
     attendance |-> {<<"present", "_present">>, <<"absent", "_absent">>}]

StatusSatellites ==
    [subjects |-> {}, tests |-> {}, corrections |-> {}, attendance |-> {},
     activities |-> {<<"status", "_status">>}, assignments |-> {<<"status", "_status">>}]

\* The primary columns that are materialized: those with a cell that is
\* there and not empty and, for a subject's progress, is a number, and for
\* a month's working days, counts.
MaterializedColumns(category) ==
    IF category = "attendance" THEN GoodMonths
    ELSE IF category = "subjects"
         THEN {i \in Filled(category) : ~isNaN(parseFloat(PayloadCell(category, i)))}
         ELSE Filled(category)

\* The cell of the satellite of primary column i with this suffix.
SatelliteCell(category, i, suffix) ==
    NamedCell(category,
              (IF category \in {"subjects", "attendance"} THEN GroupKey(category, i)
               ELSE Stem(category, i)) \o suffix)

\* The column is not in the header, or its cell is empty or past the end of
\* the row.
Missing(text) == text = Undefined \/ text = ""

\* C11: in every materialized group a satellite whose column is missing from
\* the header, or whose cell is empty or past the end of a short row, has its
\* typed default: '' for a text field, 0 for a numeric field, 'pending' for a
\* status, and for the derived percentage what the derivation gives with no
\* cell; the decode does not fail, and every group is materialized.
C11_SatelliteDefaults ==
    (Answered /\ variant = "app") =>
        \A category \in Categories :
            LET columns == Ascending(MaterializedColumns(category))
                entities == Collection(category)
            IN  /\ Len(entities) = Len(columns)
                /\ \A k \in 1..Len(columns) :
                      LET e == entities[k]
                          i == columns[k]
                      IN  /\ \A s \in TextSatellites[category] :
                                Missing(SatelliteCell(category, i, s[2])) => e[s[1]] = ""
                          /\ \A s \in NumericSatellites[category] :
                                Missing(SatelliteCell(category, i, s[2])) => e[s[1]] = Num(0)
                          /\ \A s \in StatusSatellites[category] :
                                Missing(SatelliteCell(category, i, s[2])) => e[s[1]] = "pending"
                          /\ (category = "tests"
                              /\ Missing(SatelliteCell(category, i, "_percentage")))
                             => e.percentage = RulePercentage("", e.marksObtained, e.maxMarks)
                          /\ (category = "attendance"
                              /\ Missing(SatelliteCell(category, i, "_percent")))
                             => e.percentage = RulePercentage("", e.present, e.workingDays)

\* The satellite with this suffix of primary column i has its column in the
\* header.
HasColumn(category, i, suffix) ==
    LET name == (IF category \in {"subjects", "attendance"} THEN GroupKey(category, i)
                 ELSE Stem(category, i)) \o suffix
    IN  \E c \in 1..Len(PayloadHeaders(category)) : toLowerCase(PayloadHeaders(category)[c]) = name

\* C11 witness: a document with a test whose max-marks cell is empty, a test
\* whose max-marks column is past the end of the row, and a date column that
\* is not in the header; all three decoded to their defaults.
C11_Witness ==
    /\ Answered
    /\ variant = "app"
    /\ Len(TheDoc.tests) = 2
    /\ \E i \in Filled("tests") :
          /\ HasColumn("tests", i, "_max_marks")
          /\ SatelliteCell("tests", i, "_max_marks") = ""
    /\ \E i \in Filled("tests") :
          /\ HasColumn("tests", i, "_max_marks")
          /\ SatelliteCell("tests", i, "_max_marks") = Undefined
    /\ \E i \in Filled("tests") : ~HasColumn("tests", i, "_date")
    /\ \A k \in 1..2 : TheDoc.tests[k].date = "" /\ TheDoc.tests[k].maxMarks = Num(0)

\* The category sheet has nothing of the student: it is empty, or has no key
\* column, or no row with the key.
NothingOfStudent(category) ==
    \/ ~payload[1][category].hasValues
    \/ ~LocateSpec(payload[1][category].values, admission).found

\* C12: student-not-found is the only failure.  Whenever the identifier is
\* found in the Students sheet a document is returned, whatever the category
\* sheets hold, and a category whose sheet is empty, has no key column or has
\* no row of the student is an empty sequence.
C12_OnlyNotFoundFails ==
    (Served /\ LocateSpec(payload[1]["students"].values, admission).found) =>
        /\ Answered
        /\ \A category \in Categories :
              NothingOfStudent(category) => Collection(category) = <<>>

\* The display text of a group key: the key split on '_', each word with its
\* first letter in upper case, the words joined by one space each.
RECURSIVE DisplayFrom(_, _)
DisplayFrom(key, j) ==
    IF j > Len(key) THEN ""
    ELSE (IF CharAt(key, j) = "_" THEN " "
          ELSE IF j = 1 \/ CharAt(key, j - 1) = "_" THEN UpperChar(CharAt(key, j))
          ELSE CharAt(key, j))
         \o DisplayFrom(key, j + 1)

Display(key) == DisplayFrom(key, 1)

\* The displayed group key of an entity: its month or its subject.
DisplayedKey(category, e) == IF category = "attendance" THEN e.month ELSE e.subject

\* C13: the displayed group key of every entity of every category, the month
\* of an AttendanceMonth included, is the group key of its primary column
\* with each word capitalized and the words joined by single spaces.
C13_DisplayKey ==
    (Answered /\ variant = "app") =>
        \A category \in Categories :
            LET columns == Ascending(MaterializedColumns(category))
                entities == Collection(category)
            IN  /\ Len(entities) = Len(columns)
                /\ \A k \in 1..Len(columns) :
                      DisplayedKey(category, entities[k])
                          = Display(GroupKey(category, columns[k]))

\* The group key that a displayed key stands for: lower case, with '_' for
\* every space.
RECURSIVE KeyFrom(_, _)
KeyFrom(text, j) ==
    IF j > Len(text) THEN ""
    ELSE (IF CharAt(text, j) = " " THEN "_" ELSE LowerChar(CharAt(text, j)))
         \o KeyFrom(text, j + 1)

\* Entity e is the one of primary column i: it has the column's group key
\* and shows the column's cell.
IsEntityOf(category, e, i) ==
    /\ KeyFrom(DisplayedKey(category, e), 1) = GroupKey(category, i)
    /\ ShowsPrimary(category, e, PayloadCell(category, i))

\* C14: in every category the entities are in the order of their primary
\* columns in the header row: the k-th entity is the one of the k-th
\* materialized primary column, and no other order is applied.
C14_HeaderOrder ==
    (Answered /\ variant = "app") =>
        \A category \in Categories :
            LET columns == Ascending(MaterializedColumns(category))
                entities == Collection(category)
            IN  /\ Len(entities) = Len(columns)
                /\ \A k \in 1..Len(columns) : IsEntityOf(category, entities[k], columns[k])

\* C14 witness: three assignments in header order, which is the order
\* neither of their subjects nor of their names.
C14_Witness ==
    /\ Answered
    /\ variant = "app"
    /\ Len(TheDoc.assignments) = 3
    /\ TheDoc.assignments[1].name = "Essay" /\ TheDoc.assignments[1].subject = "Math"
    /\ TheDoc.assignments[2].name = "Sums" /\ TheDoc.assignments[2].subject = "Math"
    /\ TheDoc.assignments[3].name = "Poster" /\ TheDoc.assignments[3].subject = "Art"

\* C15: requests handled at the same time do not interfere.  Whatever the
\* interleaving of two requests at their fetch, the response of each is the
\* one that the request served alone gives for its own identifier and its own
\* snapshot of the sheets, and a request that waits keeps its own identifier.
C15_NoInterference ==
    \A r \in Requests :
        /\ inflight[r].admission = inflight[r].query
        /\ (inflight[r].pc = "idle" /\ inflight[r].payload # <<>>) =>
              inflight[r].response = ResponseTo(inflight[r].payload[1], inflight[r].query)
        /\ inflight[r].pc = "fetch" => inflight[r].response = NoResponse

\* C15 witness: both requests were answered with a document, for two
\* identifiers and from two snapshots, each after the other one took a step
\* while it was waiting at its fetch.
C15_Witness ==
    /\ \A r \in Requests :
          /\ inflight[r].pc = "idle"
          /\ inflight[r].interleaved
          /\ inflight[r].response.status = 200
    /\ inflight[1].query # inflight[2].query
    /\ inflight[1].payload # inflight[2].payload
    /\ inflight[1].response # inflight[2].response

\* C16: selecting the recent tests leaves the tests collection as it was
\* decoded: the document's tests are the decoder's output, every test in
\* header order, whatever the dates are.
C16_TestsUnchanged ==
    (Answered /\ variant = "app") =>
        LET decoded == processHorizontalTests(PayloadHeaders("tests"), PayloadRow("tests"))
            columns == Ascending(Filled("tests"))
        IN  /\ TheDoc.tests = decoded
            /\ Len(TheDoc.tests) = Len(columns)
            /\ \A k \in 1..Len(columns) : IsEntityOf("tests", TheDoc.tests[k], columns[k])

\* C16 witness: a document whose recent tests start with a test that is not
\* the first of the tests collection: the sort moved it.
C16_Witness ==
    /\ Answered
    /\ variant = "app"
    /\ Len(TheDoc.tests) >= 3
    /\ TheDoc.recentTests[1].name # TheDoc.tests[1].name
    /\ TheDoc.recentTests[1].name = TheDoc.tests[Len(TheDoc.tests)].name

\* The answer to a request without an authenticated session.
NotAuthenticated == ErrorResponse(401, "Not authenticated")

\* C17: in the session variant a session is authenticated exactly from a
\* login with an admission number of five digits until the next logout that
\* succeeds; a data request or a credentials request is served only on an
\* authenticated session, and otherwise gets 401 'Not authenticated' with no
\* fetch started and nothing disclosed; a login with any other admission
\* number gets 400 and leaves the session as it is.
C17_SessionAuth ==
    [][variant = "session" =>
          /\ \A a \in Admissions :
                Login(a) =>
                    IF a # Undefined /\ Len(a) = 5 /\ AllDigits(a)
                    THEN session'.isAuthenticated /\ response' = SuccessResponse
                    ELSE response'.status = 400 /\ session' = session
          /\ Logout =>
                IF response' = SuccessResponse THEN ~session'.isAuthenticated
                ELSE response'.status = 500 /\ session' = session
          /\ (~Logout /\ \A a \in Admissions : ~Login(a)) => session' = session
          /\ \A a \in Admissions :
                ReceiveSession(a) =>
                    IF session.isAuthenticated
                    THEN pc' = "fetch" /\ response' = NoResponse
                    ELSE pc' = "idle" /\ response' = NotAuthenticated /\ payload' = <<>>
          /\ GetCredentials =>
                IF session.isAuthenticated
                THEN response' = CredentialsResponse
                ELSE response' = NotAuthenticated
          /\ (pc' = "fetch" \/ response'.credentials \/ response'.doc # <<>>)
                => session.isAuthenticated
    ]_vars

\* C17 witness: a data request was refused with 401 on a session that had
\* been logged in and served before (its admission number was taken from a
\* served request) and was logged out since.
C17_Witness ==
    /\ variant = "session"
    /\ pc = "idle"
    /\ ~session.isAuthenticated
    /\ admission # Undefined
    /\ response = NotAuthenticated

====
